---- MODULE Spec2Model ----
(***************************************************************************)
(* Store service of Lab3_IoT (src/Store/main.py): the processed_agent_data *)
(* table behind five CRUD handlers, and the WebSocket subscription set     *)
(* that every create request broadcasts to.  Rows hold what the columns    *)
(* hold: a date-time goes through the DateTime column and comes back       *)
(* through the response model.                                             *)
(*                                                                         *)
(* Concurrency, as the handlers are declared:                              *)
(*  - websocket_endpoint and create_processed_agent_data are coroutines of *)
(*    one asyncio event loop: a coroutine runs alone from one await that   *)
(*    really suspends to the next.  loopOwner names the create request     *)
(*    that is running on the loop (0: the loop is free).                   *)
(*  - read/list/update/delete are plain functions: the framework runs them *)
(*    on worker threads, so their statements interleave with everything.   *)
(*  - clients (subscribers) act on their own: Client* actions.             *)
(*                                                                         *)
(* A send to a subscriber completes at once when its client reads and no   *)
(* earlier send to it waits; it suspends while the client does not read    *)
(* ("stalled"); sends to one connection complete in the order they were    *)
(* started (sendq).  A send to a client that is gone raises or is lost.    *)
(* A handle is one connection: it connects once.                           *)
(***************************************************************************)
(* hist and deleted record what has happened; no action reads them.        *)
(*                                                                         *)
(* StoreApiAdapter.save_data of the Hub                                    *)
(* (src/Hub/app/adapters/store_api_adapter.py) is the client of the create *)
(* route: hub follows each of its calls from the POST to the boolean.      *)
(***************************************************************************)
EXTENDS Integers, Sequences, FiniteSets, TLC

\* ---- bounds of the model ------------------------------------------------
MaxCreates == 2
MaxBatch == 2
MaxHandles == 2
MaxWorkers == 2
MaxStoreWorkers == 1

Creates == 1..MaxCreates
Handles == 1..MaxHandles
Workers == 1..MaxWorkers
StoreWorkers == 1..MaxStoreWorkers

\* ---- request payloads ---------------------------------------------------
RoadStates == {"good", "bad"}
TimestampInputs == {"2024-01-01T00:00:00", "not-a-date"}

\* A timestamp that carries a UTC offset.
OffsetTimestampInputs == {"2024-01-01T12:00:00+02:00"}

\* datetime parsing of the wire value: the parsed date-time (with the offset in
\* minutes as a seventh component when the value carries one), or <<>> for
\* ValueError.
ValueError == <<>>

ParseTimestamp(value) ==
    IF value = "2024-01-01T00:00:00" THEN <<2024, 1, 1, 0, 0, 0>>
    ELSE IF value = "2024-01-01T10:00:00" THEN <<2024, 1, 1, 10, 0, 0>>
    ELSE IF value = "2024-01-01T12:00:00" THEN <<2024, 1, 1, 12, 0, 0>>
    ELSE IF value = "2024-01-01T12:00:00+02:00" THEN <<2024, 1, 1, 12, 0, 0, 120>>
    ELSE ValueError

\* What the DateTime column (no time zone) holds for a date-time bound to it:
\* a date-time without offset is kept; one with an offset is converted to the
\* time zone of the database session, here UTC, and loses the offset.
DateTimeColumn(dt) ==
    IF Len(dt) = 7 THEN <<dt[1], dt[2], dt[3], dt[4] - (dt[7] \div 60), dt[5], dt[6]>> ELSE dt

\* The date-time of a response, serialized: ISO 8601.
IsoFormat(dt) ==
    IF dt = <<2024, 1, 1, 0, 0, 0>> THEN "2024-01-01T00:00:00"
    ELSE IF dt = <<2024, 1, 1, 10, 0, 0>> THEN "2024-01-01T10:00:00"
    ELSE IF dt = <<2024, 1, 1, 12, 0, 0>> THEN "2024-01-01T12:00:00"
    ELSE "other"

AccelerometerData == {[x |-> 1, y |-> 2, z |-> 3], [x |-> 4, y |-> 5, z |-> 6]}
GpsData == {[latitude |-> 10, longitude |-> 20], [latitude |-> 30, longitude |-> 40]}

AgentData ==
    [accelerometer : AccelerometerData, gps : GpsData,
     timestamp : TimestampInputs \cup OffsetTimestampInputs]

ProcessedAgentData == [road_state : RoadStates, agent_data : AgentData]

SeqsUpTo(S, n) == UNION {[1..m -> S] : m \in 0..n}

\* The bodies the clients submit: creates carry "good" units with the first
\* readings, updates a "bad" one with the second readings.
CreateUnits ==
    {u \in ProcessedAgentData :
        /\ u.road_state = "good" /\ u.agent_data.accelerometer.x = 1
        /\ u.agent_data.gps.latitude = 10 /\ u.agent_data.timestamp \in TimestampInputs}

UpdateUnits ==
    {u \in ProcessedAgentData :
        /\ u.road_state = "bad" /\ u.agent_data.accelerometer.x = 4
        /\ u.agent_data.gps.latitude = 30 /\ u.agent_data.timestamp \in TimestampInputs}

\* Update bodies, one of them with a timestamp that carries a UTC offset.
OffsetUpdateUnits ==
    {u \in ProcessedAgentData :
        /\ u.road_state = "bad" /\ u.agent_data.accelerometer.x = 4
        /\ u.agent_data.gps.latitude = 30 /\ u.agent_data.timestamp # "not-a-date"}

Batches == SeqsUpTo(CreateUnits, MaxBatch)

\* The records of the round trip: valid ones, with and without a UTC offset.
RoundTripUnits ==
    {u \in ProcessedAgentData :
        /\ u.road_state = "good" /\ u.agent_data.accelerometer.x = 1
        /\ u.agent_data.gps.latitude = 10 /\ u.agent_data.timestamp # "not-a-date"}

RoundTripBatches == SeqsUpTo(RoundTripUnits, MaxBatch)

ValidSingles == {<<u>> : u \in {v \in CreateUnits : v.agent_data.timestamp # "not-a-date"}}

\* Faulty variant: only the first element is validated
ValidBodyFirstOnly(data) ==
    Len(data) = 0 \/ ParseTimestamp(data[1].agent_data.timestamp) # ValueError

\* Request-body validation of List[ProcessedAgentData]: every element must parse.
ValidBody(data) ==
    \A i \in 1..Len(data) : ParseTimestamp(data[i].agent_data.timestamp) # ValueError

\* json.dumps(data) on the list of model objects the handler holds: only the
\* empty list is serializable; a model object raises TypeError.
JsonDumps(data) == IF Len(data) = 0 THEN "[]" ELSE "TypeError"

VARIABLES
    processed_agent_data,  \* the committed rows of the table
    nextId,         \* next value of the id sequence
    subscriptions,  \* the global set of WebSocket handles
    ws,             \* per handle: connection state
    sendq,          \* per handle: creates suspended in a send to it, in order
    received,       \* per handle: notifications the client got (create ids)
    loopOwner,      \* create running on the event loop, 0 if none
    pc,             \* per create: position in the handler
    body,           \* per create: the request body
    kidx,           \* per create: index of the next data_unit to insert
    current_session, \* per create: rows inserted but not committed
    iter,           \* per create: the set iterator [used, pos]
    cur,            \* per create: handle of the send it is suspended in
    resp,           \* per create: HTTP status, 0 before the response
    hist,           \* per create: what happened (history, read by the properties)
    wpc,            \* per worker thread: position in its handler
    wreq,           \* per worker thread: the request it serves [op, id, data]
    wres,           \* per worker thread: the last response [status, row]
    deleted,        \* ids whose DELETE committed (history)
    hub             \* per save_data call of the Hub's adapter: its progress

vars == <<processed_agent_data, nextId, subscriptions, ws, sendq, received, loopOwner,
          pc, body, kidx, current_session, iter, cur, resp, hist, wpc, wreq, wres, deleted,
          hub>>

dbVars == <<processed_agent_data, nextId>>
wsVars == <<subscriptions, ws, sendq, received>>
reqVars == <<pc, body, kidx, current_session, iter, cur, resp, hist>>
workerVars == <<wpc, wreq, wres>>
storeVars == <<dbVars, wsVars, reqVars, workerVars, loopOwner, deleted>>

NoHist == [assigned |-> {}, commitSeq |-> 0, attempted |-> {}, abort |-> "none",
           failedAt |-> 0, regAtStart |-> {}, goneBefore |-> {}]

\* None, as a row
NoRow == [id |-> 0, road_state |-> "", x |-> 0, y |-> 0, z |-> 0,
          latitude |-> 0, longitude |-> 0, timestamp |-> ValueError]
NoUnit == [road_state |-> "",
           agent_data |-> [accelerometer |-> [x |-> 0, y |-> 0, z |-> 0],
                           gps |-> [latitude |-> 0, longitude |-> 0], timestamp |-> ""]]
NoRequest == [op |-> "none", id |-> 0, data |-> NoUnit]
NoResponse == [status |-> 0, row |-> NoRow, rows |-> {}]
NoCall == [pc |-> "idle", url |-> "", data |-> <<>>, posts |-> 0, status_code |-> 0,
           result |-> FALSE]

Init ==
    /\ processed_agent_data = {}
    /\ nextId = 1
    /\ subscriptions = {}
    /\ ws = [h \in Handles |-> "new"]
    /\ sendq = [h \in Handles |-> <<>>]
    /\ received = [h \in Handles |-> <<>>]
    /\ loopOwner = 0
    /\ pc = [c \in Creates |-> "idle"]
    /\ body = [c \in Creates |-> <<>>]
    /\ kidx = [c \in Creates |-> 1]
    /\ current_session = [c \in Creates |-> {}]
    /\ iter = [c \in Creates |-> [used |-> 0, pos |-> 0]]
    /\ cur = [c \in Creates |-> 0]
    /\ resp = [c \in Creates |-> 0]
    /\ hist = [c \in Creates |-> NoHist]
    /\ wpc = [w \in Workers |-> "idle"]
    /\ wreq = [w \in Workers |-> NoRequest]
    /\ wres = [w \in Workers |-> NoResponse]
    /\ deleted = {}
    /\ hub = [k \in Creates |-> NoCall]

\* ---- the subscription set (a Python set of handles) ---------------------
SetAdd(s, x) == s \cup {x}

\* set.remove: KeyError when the element is absent, else the set without it.
SetRemoveRaises(s, x) == x \notin s

SetRemove(s, x) == s \ {x}

\* A set iterator walks the hash table's slots in order; a handle's slot is
\* modelled by its number.  next() first compares the set's size with the size
\* at the iterator's creation.
SetIterNext(it) ==
    IF Cardinality(subscriptions) # it.used THEN [kind |-> "RuntimeError", item |-> 0]
    ELSE LET rest == {h \in subscriptions : h > it.pos} IN
         IF rest = {} THEN [kind |-> "StopIteration", item |-> 0]
         ELSE [kind |-> "item", item |-> CHOOSE h \in rest : \A g \in rest : h <= g]

Connected(h) == ws[h] = "open"

\* ---- websocket_endpoint --------------------------------------------------
\* Faulty variant: the new subscriber is sent a batch broadcast before it came
WsAcceptReplay(h) ==
    /\ loopOwner = 0
    /\ ws[h] = "new"
    /\ ws' = [ws EXCEPT ![h] = "open"]
    /\ subscriptions' = SetAdd(subscriptions, h)
    /\ LET past == {c \in Creates : pc[c] = "responded" /\ hist[c].commitSeq > 0} IN
        received' = IF past = {} THEN received
                    ELSE [received EXCEPT ![h] = <<CHOOSE c \in past : TRUE>>]
    /\ UNCHANGED <<hub, sendq, loopOwner, dbVars, reqVars, workerVars, deleted>>

\* accept() and subscriptions.add(websocket)
WsAccept(h) ==
    /\ loopOwner = 0
    /\ ws[h] = "new"
    /\ ws' = [ws EXCEPT ![h] = "open"]
    /\ subscriptions' = SetAdd(subscriptions, h)
    /\ UNCHANGED <<hub, sendq, received, loopOwner, dbVars, reqVars, workerVars, deleted>>

\* receive_text() returns a client message: the text is dropped and the loop
\* goes round.
WsReceiveText(h) ==
    /\ loopOwner = 0
    /\ ws[h] \in {"open", "stalled"}
    /\ UNCHANGED vars

\* receive_text() raises WebSocketDisconnect: subscriptions.remove(websocket)
WsDisconnect(h) ==
    /\ loopOwner = 0
    /\ ws[h] = "gone"
    /\ ~SetRemoveRaises(subscriptions, h)
    /\ ws' = [ws EXCEPT ![h] = "closed"]
    /\ subscriptions' = SetRemove(subscriptions, h)
    /\ UNCHANGED <<hub, sendq, received, loopOwner, dbVars, reqVars, workerVars, deleted>>

\* ---- the clients behind the handles ---------------------------------------
\* The client stops reading: the server's write buffer fills and sends wait.
ClientStall(h) ==
    /\ ws[h] = "open"
    /\ ws' = [ws EXCEPT ![h] = "stalled"]
    /\ UNCHANGED <<hub, subscriptions, sendq, received, loopOwner, dbVars, reqVars, workerVars, deleted>>

ClientResume(h) ==
    /\ ws[h] = "stalled"
    /\ ws' = [ws EXCEPT ![h] = "open"]
    /\ UNCHANGED <<hub, subscriptions, sendq, received, loopOwner, dbVars, reqVars, workerVars, deleted>>

\* The client closes (or is lost); the endpoint has not seen it yet.
ClientClose(h) ==
    /\ ws[h] \in {"open", "stalled"}
    /\ ws' = [ws EXCEPT ![h] = "gone"]
    /\ UNCHANGED <<hub, subscriptions, sendq, received, loopOwner, dbVars, reqVars, workerVars, deleted>>

\* ---- create_processed_agent_data -----------------------------------------
\* The response of create c: its status, and why the handler ended.
Respond(c, status, why, handle) ==
    /\ pc' = [pc EXCEPT ![c] = "responded"]
    /\ resp' = [resp EXCEPT ![c] = status]
    /\ hist' = [hist EXCEPT ![c].abort = why, ![c].failedAt = handle]
    /\ current_session' = [current_session EXCEPT ![c] = {}]
    /\ cur' = [cur EXCEPT ![c] = 0]
    /\ loopOwner' = 0

\* The request arrives; the body is validated before the handler runs.
CreateReceive(c, data) ==
    /\ loopOwner = 0
    /\ pc[c] = "idle"
    /\ \A b \in Creates : b < c => pc[b] # "idle"
    /\ body' = [body EXCEPT ![c] = data]
    /\ IF ValidBody(data)
       THEN /\ pc' = [pc EXCEPT ![c] = "inserting"]
            /\ kidx' = [kidx EXCEPT ![c] = 1]
            /\ hist' = [hist EXCEPT ![c].goneBefore = {h \in Handles : ws[h] \in {"gone", "closed"}}]
            /\ loopOwner' = c
            /\ UNCHANGED <<hub, current_session, cur, resp>>
       ELSE /\ pc' = [pc EXCEPT ![c] = "responded"]
            /\ resp' = [resp EXCEPT ![c] = 422]
            /\ hist' = [hist EXCEPT ![c].abort = "ValidationError",
                                    ![c].goneBefore = {h \in Handles : ws[h] \in {"gone", "closed"}}]
            /\ UNCHANGED <<hub, kidx, current_session, cur, loopOwner>>
    /\ UNCHANGED <<hub, iter, dbVars, wsVars, workerVars, deleted>>

\* The row an insert of data_unit builds; the id comes from the sequence.
InsertRow(id, unit) ==
    [id |-> id,
     road_state |-> unit.road_state,
     x |-> unit.agent_data.accelerometer.x,
     y |-> unit.agent_data.accelerometer.y,
     z |-> unit.agent_data.accelerometer.z,
     latitude |-> unit.agent_data.gps.latitude,
     longitude |-> unit.agent_data.gps.longitude,
     timestamp |-> DateTimeColumn(ParseTimestamp(unit.agent_data.timestamp))]

MaxIdOf(rows) == IF rows = {} THEN 0 ELSE CHOOSE m \in {r.id : r \in rows} : \A r \in rows : r.id <= m

\* Faulty variant: the id is taken from the rows that are there: max(id) + 1
SequenceNextMax(rows, n) == MaxIdOf(rows) + 1

\* The id column's generator: the sequence's next value, whatever the rows are.
SequenceNext(rows, n) == n

\* Faulty variant: each insert is committed on its own
CreateInsertAutocommit(c) ==
    /\ pc[c] = "inserting"
    /\ kidx[c] <= Len(body[c])
    /\ processed_agent_data' = processed_agent_data \cup
           {InsertRow(SequenceNext(processed_agent_data, nextId), body[c][kidx[c]])}
    /\ nextId' = nextId + 1
    /\ kidx' = [kidx EXCEPT ![c] = @ + 1]
    /\ hist' = [hist EXCEPT ![c].assigned = @ \cup {SequenceNext(processed_agent_data, nextId)}]
    /\ UNCHANGED <<hub, current_session, pc, body, iter, cur, resp, loopOwner, wsVars, workerVars, deleted>>

\* current_session.execute(insert): the row is pending in the transaction.
CreateInsert(c) ==
    /\ pc[c] = "inserting"
    /\ kidx[c] <= Len(body[c])
    /\ LET id == SequenceNext(processed_agent_data \cup current_session[c], nextId) IN
        /\ current_session' = [current_session EXCEPT ![c] = @ \cup {InsertRow(id, body[c][kidx[c]])}]
        /\ hist' = [hist EXCEPT ![c].assigned = @ \cup {id}]
    /\ nextId' = nextId + 1
    /\ kidx' = [kidx EXCEPT ![c] = @ + 1]
    /\ UNCHANGED <<hub, processed_agent_data, pc, body, iter, cur, resp, loopOwner, wsVars, workerVars, deleted>>

\* Faulty variant: the error is swallowed and the handler goes on to the broadcast
CreatePersistFailSwallowed(c) ==
    /\ pc[c] = "inserting"
    /\ current_session' = [current_session EXCEPT ![c] = {}]
    /\ pc' = [pc EXCEPT ![c] = "broadcast"]
    /\ iter' = [iter EXCEPT ![c] = [used |-> Cardinality(subscriptions), pos |-> 0]]
    /\ hist' = [hist EXCEPT ![c].abort = "PersistenceError", ![c].regAtStart = subscriptions]
    /\ UNCHANGED <<hub, body, kidx, cur, resp, loopOwner, dbVars, wsVars, workerVars, deleted>>

\* An insert or the commit raises: the session closes, which rolls back.
CreatePersistFail(c) ==
    /\ pc[c] = "inserting"
    /\ Respond(c, 500, "PersistenceError", 0)
    /\ UNCHANGED <<hub, body, kidx, iter, dbVars, wsVars, workerVars, deleted>>

CommitCount == Cardinality({c \in Creates : hist[c].commitSeq > 0})

\* current_session.commit(), then send_data_to_subscribers starts its loop.
CreateCommit(c) ==
    /\ pc[c] = "inserting"
    /\ kidx[c] > Len(body[c])
    /\ processed_agent_data' = processed_agent_data \cup current_session[c]
    /\ current_session' = [current_session EXCEPT ![c] = {}]
    /\ pc' = [pc EXCEPT ![c] = "broadcast"]
    /\ iter' = [iter EXCEPT ![c] = [used |-> Cardinality(subscriptions), pos |-> 0]]
    /\ hist' = [hist EXCEPT ![c].commitSeq = CommitCount + 1, ![c].regAtStart = subscriptions]
    /\ UNCHANGED <<hub, nextId, body, kidx, cur, resp, loopOwner, wsVars, workerVars, deleted>>

\* ---- send_data_to_subscribers ---------------------------------------------
Broadcasting(c) == pc[c] = "broadcast" /\ loopOwner = c

IterNext(c) == SetIterNext(iter[c])

HasNext(c) == IterNext(c).kind = "item"

NextHandle(c) == IterNext(c).item

Attempt(c, h) == [hist EXCEPT ![c].attempted = @ \cup {h}]

\* next() finds the set's size changed: RuntimeError leaves the handler.
IterSetChanged(c) ==
    /\ Broadcasting(c)
    /\ IterNext(c).kind = "RuntimeError"
    /\ Respond(c, 500, "RuntimeError", 0)
    /\ UNCHANGED <<hub, body, kidx, iter, dbVars, wsVars, workerVars, deleted>>

\* The loop ends; the handler returns None and the response is 200.
IterStop(c) ==
    /\ Broadcasting(c)
    /\ IterNext(c).kind = "StopIteration"
    /\ Respond(c, 200, "none", 0)
    /\ UNCHANGED <<hub, body, kidx, iter, dbVars, wsVars, workerVars, deleted>>

\* json.dumps(data) raises before anything is sent.
SendTypeError(c) ==
    /\ Broadcasting(c)
    /\ HasNext(c)
    /\ JsonDumps(body[c]) = "TypeError"
    /\ Respond(c, 500, "TypeError", 0)
    /\ UNCHANGED <<hub, body, kidx, iter, dbVars, wsVars, workerVars, deleted>>

\* Faulty variant: the send does not wait behind the earlier sends to the handle
SendDeliverNoQueue(c) ==
    /\ Broadcasting(c)
    /\ HasNext(c)
    /\ JsonDumps(body[c]) # "TypeError"
    /\ LET h == NextHandle(c) IN
        /\ Connected(h)
        /\ received' = [received EXCEPT ![h] = Append(@, c)]
        /\ iter' = [iter EXCEPT ![c].pos = h]
        /\ hist' = Attempt(c, h)
    /\ UNCHANGED <<hub, subscriptions, ws, sendq, loopOwner, pc, body, kidx, current_session, cur, resp,
                   dbVars, workerVars, deleted>>

\* send_json completes without suspending: the client gets the notification.
SendDeliver(c) ==
    /\ Broadcasting(c)
    /\ HasNext(c)
    /\ JsonDumps(body[c]) # "TypeError"
    /\ LET h == NextHandle(c) IN
        /\ Connected(h)
        /\ sendq[h] = <<>>
        /\ received' = [received EXCEPT ![h] = Append(@, c)]
        /\ iter' = [iter EXCEPT ![c].pos = h]
        /\ hist' = Attempt(c, h)
    /\ UNCHANGED <<hub, subscriptions, ws, sendq, loopOwner, pc, body, kidx, current_session, cur, resp,
                   dbVars, workerVars, deleted>>

\* send_json suspends: the client is not reading, or earlier sends to it wait.
SendSuspend(c) ==
    /\ Broadcasting(c)
    /\ HasNext(c)
    /\ JsonDumps(body[c]) # "TypeError"
    /\ LET h == NextHandle(c) IN
        /\ ws[h] = "stalled" \/ (Connected(h) /\ sendq[h] # <<>>)
        /\ sendq' = [sendq EXCEPT ![h] = Append(@, c)]
        /\ cur' = [cur EXCEPT ![c] = h]
        /\ hist' = Attempt(c, h)
    /\ pc' = [pc EXCEPT ![c] = "awaiting"]
    /\ loopOwner' = 0
    /\ UNCHANGED <<hub, subscriptions, ws, received, body, kidx, current_session, iter, resp,
                   dbVars, workerVars, deleted>>

\* send_json to a client that is gone raises: the exception leaves the loop
\* and the handler.
SendRaise(c) ==
    /\ Broadcasting(c)
    /\ HasNext(c)
    /\ JsonDumps(body[c]) # "TypeError"
    /\ ws[NextHandle(c)] = "gone"
    /\ pc' = [pc EXCEPT ![c] = "responded"]
    /\ resp' = [resp EXCEPT ![c] = 500]
    /\ hist' = [hist EXCEPT ![c].abort = "SendError", ![c].failedAt = NextHandle(c),
                            ![c].attempted = @ \cup {NextHandle(c)}]
    /\ loopOwner' = 0
    /\ UNCHANGED <<hub, body, kidx, current_session, iter, cur, dbVars, wsVars, workerVars, deleted>>

\* send_json to a client that is gone returns: the bytes were buffered and lost.
SendLost(c) ==
    /\ Broadcasting(c)
    /\ HasNext(c)
    /\ JsonDumps(body[c]) # "TypeError"
    /\ ws[NextHandle(c)] = "gone"
    /\ iter' = [iter EXCEPT ![c].pos = NextHandle(c)]
    /\ hist' = Attempt(c, NextHandle(c))
    /\ UNCHANGED <<hub, loopOwner, pc, body, kidx, current_session, cur, resp, dbVars, wsVars, workerVars, deleted>>

Suspended(c) ==
    /\ pc[c] = "awaiting"
    /\ loopOwner = 0
    /\ sendq[cur[c]] # <<>>
    /\ Head(sendq[cur[c]]) = c

\* The suspended send completes: the handler goes on with the loop.
SendResume(c) ==
    /\ Suspended(c)
    /\ Connected(cur[c])
    /\ received' = [received EXCEPT ![cur[c]] = Append(@, c)]
    /\ sendq' = [sendq EXCEPT ![cur[c]] = Tail(@)]
    /\ iter' = [iter EXCEPT ![c].pos = cur[c]]
    /\ pc' = [pc EXCEPT ![c] = "broadcast"]
    /\ cur' = [cur EXCEPT ![c] = 0]
    /\ loopOwner' = c
    /\ UNCHANGED <<hub, subscriptions, ws, body, kidx, current_session, resp, hist, dbVars, workerVars, deleted>>

\* The suspended send fails: the connection was lost while it waited.
SendResumeRaise(c) ==
    /\ Suspended(c)
    /\ ws[cur[c]] \in {"gone", "closed"}
    /\ sendq' = [sendq EXCEPT ![cur[c]] = Tail(@)]
    /\ pc' = [pc EXCEPT ![c] = "responded"]
    /\ resp' = [resp EXCEPT ![c] = 500]
    /\ hist' = [hist EXCEPT ![c].abort = "SendError", ![c].failedAt = cur[c]]
    /\ cur' = [cur EXCEPT ![c] = 0]
    /\ UNCHANGED <<hub, subscriptions, ws, received, loopOwner, body, kidx, current_session, iter,
                   dbVars, workerVars, deleted>>

\* ---- the table, as the worker threads' statements see it ------------------
\* select(...).where(id == i).first(): a row with that id, or None
SelectFirst(rows, i) ==
    IF \E r \in rows : r.id = i THEN CHOOSE r \in rows : r.id = i ELSE NoRow

\* Faulty variant: the new values are inserted beside the row they should replace
UpdateWhereInsert(rows, i, unit) == rows \cup {InsertRow(i, unit)}

\* update(...).where(id == i).values(...): every column but the id is replaced
UpdateWhere(rows, i, unit) ==
    {IF r.id = i THEN InsertRow(r.id, unit) ELSE r : r \in rows}

\* delete(...).where(id == i)
DeleteWhere(rows, i) == {r \in rows : r.id # i}

WorkerRespond(w, status, row) ==
    /\ wpc' = [wpc EXCEPT ![w] = "idle"]
    /\ wres' = [wres EXCEPT ![w] = [status |-> status, row |-> row, rows |-> {}]]

WorkerStart(w, op, i, unit) ==
    /\ wpc[w] = "idle"
    /\ wreq' = [wreq EXCEPT ![w] = [op |-> op, id |-> i, data |-> unit]]

\* ---- read_processed_agent_data -------------------------------------------
ReadRequest(w, i) ==
    /\ WorkerStart(w, "read", i, NoUnit)
    /\ IF SelectFirst(processed_agent_data, i) = NoRow
       THEN WorkerRespond(w, 404, NoRow)
       ELSE WorkerRespond(w, 200, SelectFirst(processed_agent_data, i))
    /\ UNCHANGED <<hub, dbVars, wsVars, reqVars, loopOwner, deleted>>

\* The body of a 200 response: the row through response_model.
ResponseJson(row) ==
    [id |-> row.id, road_state |-> row.road_state, x |-> row.x, y |-> row.y, z |-> row.z,
     latitude |-> row.latitude, longitude |-> row.longitude,
     timestamp |-> IsoFormat(row.timestamp)]

\* ---- list_processed_agent_data -------------------------------------------
ListRequest(w) ==
    /\ WorkerStart(w, "list", 0, NoUnit)
    /\ wpc' = [wpc EXCEPT ![w] = "idle"]
    /\ wres' = [wres EXCEPT ![w] = [status |-> 200, row |-> NoRow, rows |-> processed_agent_data]]
    /\ UNCHANGED <<hub, dbVars, wsVars, reqVars, loopOwner, deleted>>

\* ---- update_processed_agent_data -----------------------------------------
\* Faulty variant: the handler goes on to the update without the existence check
UpdateRequestNoCheck(w, i, unit) ==
    /\ WorkerStart(w, "update", i, unit)
    /\ IF ParseTimestamp(unit.agent_data.timestamp) = ValueError
       THEN WorkerRespond(w, 422, NoRow)
       ELSE /\ wpc' = [wpc EXCEPT ![w] = "update_selected"]
            /\ wres' = [wres EXCEPT ![w] = NoResponse]
    /\ UNCHANGED <<hub, dbVars, wsVars, reqVars, loopOwner, deleted>>

\* validation of the body, then the first select
UpdateRequest(w, i, unit) ==
    /\ WorkerStart(w, "update", i, unit)
    /\ IF ParseTimestamp(unit.agent_data.timestamp) = ValueError
       THEN WorkerRespond(w, 422, NoRow)
       ELSE IF SelectFirst(processed_agent_data, i) = NoRow
            THEN WorkerRespond(w, 404, NoRow)
            ELSE /\ wpc' = [wpc EXCEPT ![w] = "update_selected"]
                 /\ wres' = [wres EXCEPT ![w] = NoResponse]
    /\ UNCHANGED <<hub, dbVars, wsVars, reqVars, loopOwner, deleted>>

\* Faulty variant: the update also sends a notification to the subscribers
UpdateCommitNotifies(w) ==
    /\ wpc[w] = "update_selected"
    /\ processed_agent_data' = UpdateWhere(processed_agent_data, wreq[w].id, wreq[w].data)
    /\ wpc' = [wpc EXCEPT ![w] = "update_committed"]
    /\ received' = [h \in Handles |->
                       IF h \in subscriptions THEN Append(received[h], 0) ELSE received[h]]
    /\ UNCHANGED <<hub, nextId, wreq, wres, subscriptions, ws, sendq, reqVars, loopOwner, deleted>>

\* execute(update) and commit
UpdateCommit(w) ==
    /\ wpc[w] = "update_selected"
    /\ processed_agent_data' = UpdateWhere(processed_agent_data, wreq[w].id, wreq[w].data)
    /\ wpc' = [wpc EXCEPT ![w] = "update_committed"]
    /\ UNCHANGED <<hub, nextId, wreq, wres, wsVars, reqVars, loopOwner, deleted>>

\* the second select; None does not fit the response model
UpdateReturn(w) ==
    /\ wpc[w] = "update_committed"
    /\ IF SelectFirst(processed_agent_data, wreq[w].id) = NoRow
       THEN WorkerRespond(w, 500, NoRow)
       ELSE WorkerRespond(w, 200, SelectFirst(processed_agent_data, wreq[w].id))
    /\ UNCHANGED <<hub, wreq, dbVars, wsVars, reqVars, loopOwner, deleted>>

\* ---- delete_processed_agent_data -----------------------------------------
DeleteRequest(w, i) ==
    /\ WorkerStart(w, "delete", i, NoUnit)
    /\ IF SelectFirst(processed_agent_data, i) = NoRow
       THEN WorkerRespond(w, 404, NoRow)
       ELSE /\ wpc' = [wpc EXCEPT ![w] = "delete_selected"]
            /\ wres' = [wres EXCEPT ![w] = [status |-> 0, rows |-> {},
                                            row |-> SelectFirst(processed_agent_data, i)]]
    /\ UNCHANGED <<hub, dbVars, wsVars, reqVars, loopOwner, deleted>>

\* execute(delete) and commit; the row selected before is returned
DeleteCommit(w) ==
    /\ wpc[w] = "delete_selected"
    /\ processed_agent_data' = DeleteWhere(processed_agent_data, wreq[w].id)
    /\ deleted' = deleted \cup {wreq[w].id}
    /\ WorkerRespond(w, 200, wres[w].row)
    /\ UNCHANGED <<hub, nextId, wreq, wsVars, reqVars, loopOwner>>

\* the update or the delete statement, or its commit, raises: rolled back
WorkerPersistFail(w) ==
    /\ wpc[w] \in {"update_selected", "delete_selected"}
    /\ WorkerRespond(w, 500, NoRow)
    /\ UNCHANGED <<hub, wreq, dbVars, wsVars, reqVars, loopOwner, deleted>>

\* ---- StoreApiAdapter.save_data (the Hub's adapter) ------------------------
codes_ok == 200

\* The path save_data posts to, and the path of the store's create route.
api_endpoint_path == "/processed_agent_data"

CreateRoute == "/processed_agent_data/"

\* The store's router: a path that matches no route, but does with a slash
\* appended, is answered 307 with that path as the location.
Route(path) ==
    IF path = CreateRoute THEN "match"
    ELSE IF path \o "/" = CreateRoute THEN "redirect"
    ELSE "not_found"

\* The batches the Hub saves: its records hold parsed date-times.
HubBatches ==
    SeqsUpTo({u \in CreateUnits : ParseTimestamp(u.agent_data.timestamp) # ValueError}, MaxBatch)

\* save_data is called (the calls of the Hub follow one another): the batch is
\* serialized to a JSON array and requests.post sends it.
SaveData(k, batch) ==
    /\ hub[k].pc = "idle"
    /\ \A j \in Creates : j < k => hub[j].pc = "returned"
    /\ hub' = [hub EXCEPT ![k] = [pc |-> "posted", url |-> api_endpoint_path, data |-> batch,
                                  posts |-> 1, status_code |-> 0, result |-> FALSE]]
    /\ UNCHANGED storeVars

\* The request is at the store with a path that is not a route's.
StoreRoute(k) ==
    /\ hub[k].pc = "posted"
    /\ Route(hub[k].url) # "match"
    /\ IF Route(hub[k].url) = "redirect"
       THEN hub' = [hub EXCEPT ![k].pc = "redirected", ![k].status_code = 307]
       ELSE hub' = [hub EXCEPT ![k].pc = "answered", ![k].status_code = 404]
    /\ UNCHANGED storeVars

\* requests.post follows the redirect: 307 keeps the method and the body.
FollowRedirect(k) ==
    /\ hub[k].pc = "redirected"
    /\ hub' = [hub EXCEPT ![k].pc = "posted", ![k].url = @ \o "/", ![k].posts = @ + 1,
                          ![k].status_code = 0]
    /\ UNCHANGED storeVars

\* The request is at the create route: the handler gets the body as create k.
HubCreateReceive(k) ==
    /\ hub[k].pc = "posted"
    /\ Route(hub[k].url) = "match"
    /\ pc[k] = "idle"
    /\ CreateReceive(k, hub[k].data)

\* The response is there: save_data returns True for codes.ok, else False.
SaveDataReturn(k) ==
    /\ \/ hub[k].pc = "answered"
       \/ hub[k].pc = "posted" /\ resp[k] # 0
    /\ LET status_code == IF hub[k].pc = "answered" THEN hub[k].status_code ELSE resp[k] IN
        hub' = [hub EXCEPT ![k].pc = "returned", ![k].status_code = status_code,
                           ![k].result = (status_code = codes_ok)]
    /\ UNCHANGED storeVars

\* ---- specifications ------------------------------------------------------
EndpointStep == \E h \in Handles : WsAccept(h) \/ WsReceiveText(h) \/ WsDisconnect(h)

ClientStep == \E h \in Handles : ClientStall(h) \/ ClientResume(h) \/ ClientClose(h)

PersistStep ==
    \/ \E c \in Creates : \E data \in Batches : CreateReceive(c, data)
    \/ \E c \in Creates : CreateInsert(c) \/ CreatePersistFail(c) \/ CreateCommit(c)

\* The creates of valid single records, with a database that does not fail.
PersistCommits ==
    \/ \E c \in Creates : \E data \in ValidSingles : CreateReceive(c, data)
    \/ \E c \in Creates : CreateInsert(c) \/ CreateCommit(c)

BroadcastStep ==
    \/ \E c \in Creates : IterSetChanged(c) \/ IterStop(c) \/ SendTypeError(c)
    \/ \E c \in Creates : SendDeliver(c) \/ SendSuspend(c) \/ SendRaise(c) \/ SendLost(c)
    \/ \E c \in Creates : SendResume(c) \/ SendResumeRaise(c)

\* The ids the clients ask for: those the sequence has given out, and the next
\* one, which stands for every id not given out yet.
RequestIds == 1..nextId

\* The requests of the threads W, with update bodies from U.
WorkerServes(W, U) ==
    \/ \E w \in W, i \in RequestIds : ReadRequest(w, i) \/ DeleteRequest(w, i)
    \/ \E w \in W : ListRequest(w)
    \/ \E w \in W, i \in RequestIds, unit \in U : UpdateRequest(w, i, unit)
    \/ \E w \in W : UpdateCommit(w) \/ UpdateReturn(w) \/ DeleteCommit(w)

WorkerRuns(W) == WorkerServes(W, UpdateUnits)

WorkerFails(W) == \E w \in W : WorkerPersistFail(w)

WorkerStep == WorkerRuns(Workers) \/ WorkerFails(Workers)

\* The whole service.
Next == EndpointStep \/ ClientStep \/ PersistStep \/ BroadcastStep \/ WorkerStep

Spec == Init /\ [][Next]_vars

\* The fan-out: subscribers and create requests; no read, update or delete
\* request arrives.
NextFanout == EndpointStep \/ ClientStep \/ PersistStep \/ BroadcastStep

SpecFanout == Init /\ [][NextFanout]_vars

\* The store: every handler of the table, the others served by StoreWorkers;
\* the subscribers that connect stay and keep reading.
NextStore ==
    \/ \E h \in Handles : WsAccept(h)
    \/ PersistStep
    \/ \E c \in Creates : IterStop(c) \/ SendTypeError(c) \/ SendDeliver(c)
    \/ WorkerRuns(StoreWorkers) \/ WorkerFails(StoreWorkers)

SpecStore == Init /\ [][NextStore]_vars

\* The whole service with the requests of the table served by StoreWorkers
\* and creates of at most one record.
NextService ==
    \/ EndpointStep \/ ClientStep
    \/ \E c \in Creates : \E data \in SeqsUpTo(CreateUnits, 1) : CreateReceive(c, data)
    \/ \E c \in Creates : CreateInsert(c) \/ CreatePersistFail(c) \/ CreateCommit(c)
    \/ BroadcastStep
    \/ WorkerRuns(StoreWorkers) \/ WorkerFails(StoreWorkers)

SpecService == Init /\ [][NextService]_vars

\* Concurrent requests on the table: every worker thread serves reads, updates
\* and deletes while creates commit; nobody subscribes and the database does
\* not fail.
NextRace ==
    \/ PersistCommits
    \/ \E c \in Creates : IterStop(c)
    \/ WorkerRuns(Workers)

SpecRace == Init /\ [][NextRace]_vars

\* The round trip: valid batches are created and their records read by id;
\* nothing updates or deletes them.
NextRoundTrip ==
    \/ \E c \in Creates : \E data \in RoundTripBatches : CreateReceive(c, data)
    \/ \E c \in Creates : CreateInsert(c) \/ CreateCommit(c) \/ IterStop(c)
    \/ \E w \in StoreWorkers, i \in RequestIds : ReadRequest(w, i)

SpecRoundTrip == Init /\ [][NextRoundTrip]_vars

\* Updates of created records by one thread while another deletes; the update
\* bodies are valid, with and without a UTC offset.
NextUpdate ==
    \/ PersistCommits
    \/ \E c \in Creates : IterStop(c)
    \/ WorkerServes(Workers, OffsetUpdateUnits)

SpecUpdate == Init /\ [][NextUpdate]_vars

\* The Hub saves batches through its adapter: every create request is one of
\* save_data; the subscribers that connect stay and keep reading.
HubStep ==
    \/ \E k \in Creates : \E batch \in HubBatches : SaveData(k, batch)
    \/ \E k \in Creates : StoreRoute(k) \/ FollowRedirect(k) \/ HubCreateReceive(k)
    \/ \E k \in Creates : SaveDataReturn(k)

NextHub ==
    \/ HubStep
    \/ \E h \in Handles : WsAccept(h)
    \/ \E c \in Creates : CreateInsert(c) \/ CreatePersistFail(c) \/ CreateCommit(c)
    \/ \E c \in Creates : IterStop(c) \/ SendTypeError(c) \/ SendDeliver(c)

SpecHub == Init /\ [][NextHub]_vars

\* The event loop runs every coroutine that can run; the clients, the arrival
\* of requests and the failures of the database are under no obligation.
CreateRuns(c) ==
    \/ CreateInsert(c) \/ CreateCommit(c)
    \/ IterSetChanged(c) \/ IterStop(c) \/ SendTypeError(c)
    \/ SendDeliver(c) \/ SendSuspend(c) \/ SendRaise(c) \/ SendLost(c)
    \/ SendResume(c) \/ SendResumeRaise(c)

FairFanout ==
    /\ SpecFanout
    /\ \A c \in Creates : WF_vars(CreateRuns(c))
    /\ \A h \in Handles : WF_vars(WsDisconnect(h))

\* ---- the claims ----------------------------------------------------------
InSeq(x, q) == \E i \in 1..Len(q) : q[i] = x

Count(x, q) == Cardinality({i \in 1..Len(q) : q[i] = x})

Committed(c) == hist[c].commitSeq > 0

Done(c) == pc[c] = "responded"

\* C1: when the send to one subscriber raises, the create still answers with
\* success and every other subscriber of the registry that stays connected
\* has the notification once the request is done.
C1_FailureIsolated ==
    \A c \in Creates :
        hist[c].failedAt # 0 /\ Done(c) =>
            /\ resp[c] = 200
            /\ \A h \in hist[c].regAtStart \ {hist[c].failedAt} :
                    Connected(h) => InSeq(c, received[h])

\* C2: a create whose commit succeeded eventually responds, even when the send
\* to a subscriber never completes.
C2_CreateEventuallyResponds ==
    \A c \in Creates : Committed(c) ~> (resp[c] # 0)

\* C3: a subscriber that is in the registry before a create and stays connected
\* has exactly one notification of it once the create is done, and nobody has a
\* notification of a create that did not commit.
C3_ExactlyOnce ==
    \A c \in Creates : \A h \in Handles :
        /\ InSeq(c, received[h]) => Committed(c) /\ Count(c, received[h]) = 1
        /\ (Done(c) /\ Committed(c) /\ h \in hist[c].regAtStart /\ Connected(h))
               => Count(c, received[h]) = 1

\* C4: a subscriber that was gone before a create never has that create's
\* notification, and its departure does not affect the others: when nothing
\* but the send to the departed one went wrong, every subscriber that remains
\* connected has the notification once the create is done.
C4_DepartureHarmless ==
    \A c \in Creates : \A g \in hist[c].goneBefore :
        /\ ~InSeq(c, received[g])
        /\ (/\ Done(c) /\ Committed(c)
            /\ JsonDumps(body[c]) # "TypeError"
            /\ hist[c].abort \in {"none", "SendError"}
            /\ hist[c].failedAt \in {0, g})
               => \A h \in hist[c].regAtStart \ hist[c].goneBefore :
                      Connected(h) => InSeq(c, received[h])

\* C5: no send to any subscriber happens before the commit of its batch, and a
\* create whose persistence failed ends in a server error with no send
\* attempted.
C5_BroadcastAfterCommit ==
    \A c \in Creates :
        /\ (\/ hist[c].attempted # {}
            \/ pc[c] \in {"broadcast", "awaiting"}
            \/ \E h \in Handles : InSeq(c, received[h]))
               => /\ Committed(c)
                  /\ hist[c].assigned \subseteq {r.id : r \in processed_agent_data}
        /\ hist[c].abort = "PersistenceError"
               => /\ ~Committed(c)
                  /\ hist[c].attempted = {}
                  /\ Done(c) => resp[c] = 500

C5_Witness ==
    \E a, b \in Creates :
        /\ hist[a].abort = "PersistenceError" /\ resp[a] = 500 /\ hist[a].assigned # {}
        /\ \E h \in subscriptions : Connected(h)
        /\ hist[b].attempted # {}

C7_UniqueRetrievable ==
    /\ \A r1, r2 \in processed_agent_data : r1.id = r2.id => r1 = r2
    /\ \A c \in Creates : Committed(c) =>
           \A i \in hist[c].assigned \ deleted : SelectFirst(processed_agent_data, i).id = i

C7_Witness ==
    \E c \in Creates :
        /\ Committed(c) /\ Cardinality(hist[c].assigned) = 2
        /\ deleted \cap hist[c].assigned # {}
        /\ hist[c].assigned \ deleted # {}
        /\ \E r \in processed_agent_data : r.road_state = "bad"

\* C8: the rows of a batch become visible together: before the commit none of
\* them is in the table, after it all of them are (but the deleted ones), and
\* a batch whose insert or commit failed leaves none.
C8_AllOrNothing ==
    \A c \in Creates :
        LET visible == {i \in hist[c].assigned : \E r \in processed_agent_data : r.id = i} IN
        IF Committed(c)
        THEN visible = hist[c].assigned \ deleted
                /\ Cardinality(hist[c].assigned) = Len(body[c])
        ELSE visible = {}

C8_Witness ==
    \E a, b \in Creates :
        /\ hist[a].abort = "PersistenceError"
        /\ Len(body[a]) = 2 /\ Cardinality(hist[a].assigned) = 1
        /\ pc[b] = "inserting" /\ Len(body[b]) = 2 /\ kidx[b] = 2
        /\ \E w \in Workers : wreq[w].op = "read" /\ wreq[w].id \in hist[b].assigned
                                /\ wres[w].status = 404

HasMalformed(data) == \E i \in 1..Len(data) : data[i].agent_data.timestamp = "not-a-date"

\* C9: a create whose batch holds a record with a malformed timestamp is
\* answered 422 and nothing else happens: no row of the batch is inserted, none
\* is committed, and no notification is sent.
C9_MalformedRejected ==
    \A c \in Creates :
        pc[c] # "idle" /\ HasMalformed(body[c]) =>
            /\ Done(c) /\ resp[c] = 422
            /\ hist[c].assigned = {} /\ current_session[c] = {} /\ ~Committed(c)
            /\ hist[c].attempted = {}
            /\ \A h \in Handles : ~InSeq(c, received[h])

C9_Witness ==
    \E c \in Creates :
        /\ Len(body[c]) = 2
        /\ body[c][1].agent_data.timestamp = "2024-01-01T00:00:00"
        /\ body[c][2].agent_data.timestamp = "not-a-date"
        /\ resp[c] = 422
        /\ processed_agent_data # {}
        /\ \E h \in subscriptions : Connected(h)

\* C10: once the delete of an id has committed, every read of that id answers
\* 404, and every further delete of it answers 404 and leaves the table as it
\* is.
C10_DeletedStaysGone ==
    [][\A w \in Workers : \A i \in deleted :
          (ReadRequest(w, i) \/ DeleteRequest(w, i))
              => (wres'[w].status = 404 /\ wpc'[w] = "idle" /\ processed_agent_data' = processed_agent_data)]_vars

C10_Witness ==
    \E w \in Workers :
        /\ wreq[w].op = "delete" /\ wreq[w].id \in deleted
        /\ wpc[w] = "idle" /\ wres[w].status = 404
        /\ processed_agent_data # {}
        /\ nextId > wreq[w].id + 1

\* C11: an update of an id that has no row in the table answers 404 at once
\* and leaves the table as it is: no row is created and none is modified.
C11_UpdateMissingNotFound ==
    [][\A w \in Workers : \A i \in RequestIds : \A unit \in UpdateUnits :
          (/\ UpdateRequest(w, i, unit)
           /\ ParseTimestamp(unit.agent_data.timestamp) # ValueError
           /\ \A r \in processed_agent_data : r.id # i)
              => /\ wres'[w].status = 404
                 /\ wpc'[w] = "idle"
                 /\ processed_agent_data' = processed_agent_data]_vars

\* An update of a deleted id was answered 404 while other rows are there.
C11_Witness ==
    \E w \in Workers :
        /\ wreq[w].op = "update" /\ wreq[w].id \in deleted
        /\ wpc[w] = "idle" /\ wres[w].status = 404
        /\ processed_agent_data # {}

\* The id given to the k-th record of create c: ids are given in the order of
\* the inserts.
IdOf(c, k) ==
    CHOOSE i \in hist[c].assigned : Cardinality({j \in hist[c].assigned : j < i}) = k - 1

\* The values of a response body are those of the submitted record.
SameValues(json, unit) ==
    /\ json.road_state = unit.road_state
    /\ json.x = unit.agent_data.accelerometer.x
    /\ json.y = unit.agent_data.accelerometer.y
    /\ json.z = unit.agent_data.accelerometer.z
    /\ json.latitude = unit.agent_data.gps.latitude
    /\ json.longitude = unit.agent_data.gps.longitude
    /\ ParseTimestamp(json.timestamp) = ParseTimestamp(unit.agent_data.timestamp)

\* C12: every read that finds a record of a committed create answers with the
\* id the record was given and with the road_state, x, y, z, latitude,
\* longitude and timestamp that were submitted for it.
C12_RoundTrip ==
    \A c \in Creates : \A k \in 1..Len(body[c]) : \A w \in Workers :
        (/\ Committed(c)
         /\ wreq[w].op = "read" /\ wres[w].status = 200
         /\ wreq[w].id = IdOf(c, k))
            => /\ ResponseJson(wres[w].row).id = IdOf(c, k)
               /\ SameValues(ResponseJson(wres[w].row), body[c][k])

SuccessStatus == 200..299

\* C13: a call of save_data that has returned has issued exactly one POST, and
\* its result is true when the status of the response is a success status and
\* false for every other status.
C13_OnePostBooleanByStatus ==
    \A k \in Creates :
        hub[k].pc = "returned" =>
            /\ hub[k].posts = 1
            /\ hub[k].result = (hub[k].status_code \in SuccessStatus)

\* The boolean alone: true for a success status, false for every other.
C13_BooleanByStatus ==
    \A k \in Creates :
        hub[k].pc = "returned" => hub[k].result = (hub[k].status_code \in SuccessStatus)

\* C14: a handle whose disconnect the endpoint has seen, or to which a send
\* has failed, is not in the registry, and no broadcast that commits after the
\* failed one attempts a send to it.
C14_NoStaleHandles ==
    /\ \A h \in Handles : ws[h] = "closed" => h \notin subscriptions
    /\ \A c \in Creates :
           hist[c].failedAt # 0 =>
               /\ hist[c].failedAt \notin subscriptions
               /\ \A d \in Creates :
                      hist[d].commitSeq > hist[c].commitSeq =>
                          hist[c].failedAt \notin hist[d].attempted

\* The second half alone: no later broadcast attempts the handle again.
C14_NoLaterAttempt ==
    \A c, d \in Creates :
        (hist[c].failedAt # 0 /\ hist[d].commitSeq > hist[c].commitSeq)
            => hist[c].failedAt \notin hist[d].attempted

\* The disconnect half alone.
C14_DisconnectRemoves ==
    \A h \in Handles : ws[h] = "closed" => h \notin subscriptions

\* C15: a connect or a disconnect while a broadcast is suspended in a send
\* does not abort the broadcast, and when nothing else goes wrong every handle
\* that was in the registry at the broadcast's start and is connected has the
\* notification once the create is done.
C15_SnapshotIteration ==
    \A c \in Creates :
        /\ hist[c].abort # "RuntimeError"
        /\ (Done(c) /\ Committed(c) /\ hist[c].abort \in {"none", "RuntimeError"})
               => \A h \in hist[c].regAtStart : Connected(h) => InSeq(c, received[h])

\* C16: once a create is done, its notification reaches nobody any more, and a
\* handle that has not connected yet has no notification: a subscriber that
\* connects after the broadcast of a batch never gets that batch.
C16_NoReplay ==
    [][\A c \in Creates : \A h \in Handles :
          Done(c) =>
              /\ Count(c, received'[h]) = Count(c, received[h])
              /\ ws[h] = "new" => (~InSeq(c, received[h]) /\ ~InSeq(c, received'[h]))]_vars

\* Handle h came after the broadcast of c, which g got: h has the later
\* notification d and not c.
C16_Witness ==
    \E c, d \in Creates : \E g, h \in Handles :
        /\ Done(c) /\ hist[c].abort = "none" /\ Done(d)
        /\ received[g] = <<c, d>>
        /\ h \in hist[d].regAtStart \ hist[c].regAtStart
        /\ received[h] = <<d>>

Ids(rows) == {r.id : r \in rows}

\* The columns of a row hold the values of the submitted record.
HoldsValues(row, unit) ==
    /\ row.road_state = unit.road_state
    /\ row.x = unit.agent_data.accelerometer.x
    /\ row.y = unit.agent_data.accelerometer.y
    /\ row.z = unit.agent_data.accelerometer.z
    /\ row.latitude = unit.agent_data.gps.latitude
    /\ row.longitude = unit.agent_data.gps.longitude
    /\ row.timestamp = ParseTimestamp(unit.agent_data.timestamp)

\* C17: the commit of an update of id i leaves the set of ids as it is, leaves
\* every row of another id as it is, and the row of id i, when it is there,
\* keeps its id and holds the submitted values.
C17_UpdateReplacesOnlyThatRow ==
    [][\A w \in Workers :
          UpdateCommit(w) =>
              /\ Ids(processed_agent_data') = Ids(processed_agent_data)
              /\ \A r \in processed_agent_data :
                     r.id # wreq[w].id => r \in processed_agent_data'
              /\ \A r \in processed_agent_data' :
                     r.id = wreq[w].id => HoldsValues(r, wreq[w].data)]_vars

\* The frame alone: the ids stay, the other rows stay, and only the row of
\* id i differs.
C17_UpdateFrame ==
    [][\A w \in Workers :
          UpdateCommit(w) =>
              /\ Ids(processed_agent_data') = Ids(processed_agent_data)
              /\ \A r \in processed_agent_data :
                     r.id # wreq[w].id => r \in processed_agent_data']_vars

\* C18: removing a handle that is not in the registry raises no error and
\* leaves the membership as it is; so after the removal at a handle's
\* disconnect, a second removal of the same handle is harmless.
C18_RemoveIdempotent ==
    \A h \in Handles :
        ws[h] = "closed" =>
            /\ ~SetRemoveRaises(subscriptions, h)
            /\ SetRemove(subscriptions, h) = subscriptions

\* C19: a step of a read, list, update or delete request sends nothing and
\* leaves the registry as it is; a notification comes only from a create whose
\* batch has committed; a create that failed validation or persistence has
\* attempted no send; no step of a create changes the registry; and a step
\* that connects or disconnects a subscriber leaves the table as it is.
C19_OnlyCreateNotifies ==
    [][/\ workerVars' # workerVars => UNCHANGED <<subscriptions, ws, sendq, received>>
       /\ \A h \in Handles :
              received'[h] # received[h] =>
                  \E c \in Creates :
                      /\ Committed(c) /\ pc[c] \in {"broadcast", "awaiting"}
                      /\ received'[h] = Append(received[h], c)
       /\ \A c \in Creates :
              hist'[c].abort \in {"ValidationError", "PersistenceError"} =>
                  /\ hist'[c].attempted = {}
                  /\ \A h \in Handles : ~InSeq(c, received'[h])
       /\ reqVars' # reqVars => subscriptions' = subscriptions
       /\ (ws' # ws \/ subscriptions' # subscriptions) => UNCHANGED dbVars]_vars

\* Subscriber h has been in the registry since before the rows of create a
\* were committed, and another subscriber has gone: a row has been updated or
\* deleted since, and h has its one notification, that of create b.
C19_Witness ==
    \E a, b \in Creates : \E g, h \in Handles : \E w \in Workers :
        /\ Committed(a) /\ hist[a].assigned # {} /\ h \in hist[a].regAtStart
        /\ Connected(h) /\ received[h] = <<b>>
        /\ ws[g] = "closed"
        /\ wreq[w].op \in {"update", "delete"} /\ wres[w].status = 200

\* Every update request that has ended was answered 404 (or 422 for its body)
\* or 200 with the row of its id.
UpdateEndsWithRecord ==
    \A w \in Workers :
        (wreq[w].op = "update" /\ wpc[w] = "idle") =>
            \/ wres[w].status \in {404, 422}
            \/ wres[w].status = 200 /\ wres[w].row.id = wreq[w].id

\* Of the delete requests of one id at most one was answered 200 with the row.
OneDeleteReturns ==
    \A v, w \in Workers :
        (/\ v # w
         /\ wreq[v].op = "delete" /\ wreq[w].op = "delete" /\ wreq[v].id = wreq[w].id
         /\ wpc[v] = "idle" /\ wpc[w] = "idle")
            => ~(wres[v].status = 200 /\ wres[w].status = 200)

\* C20: with a database that does not fail and requests of several threads on
\* one id, every update ends in 404 or in a response with the row of that id,
\* never with no row after the existence check, and at most one delete of an
\* id returns the row.
C20_UpdateDeleteRaces == UpdateEndsWithRecord /\ OneDeleteReturns
====
